---- MODULE Spec2Model ----
(***************************************************************************)
(* Model of src/driver/driver.go: the Client facade over the MongoDB Go    *)
(* driver.  The facade's fields are the variables cl, cr, db, co and u.    *)
(* The driver is the environment: the set of handles it has connected and  *)
(* not yet disconnected (live), the next handle it will hand out (next).   *)
(* Every public method of Client is one action.  A driver call on a live   *)
(* handle may succeed or report an error, so a method is the set of the    *)
(* ways it can run; the action takes one of them.  The driver calls the    *)
(* method issued, in order, are kept in calls, and what it returned in     *)
(* result.                                                                  *)
(***************************************************************************)
EXTENDS Integers, Sequences, FiniteSets, TLC

VARIABLES cl, cr, db, co, u, live, next, op, result, calls

vars == <<cl, cr, db, co, u, live, next, op, result, calls>>

----------------------------------------------------------------------------
(* Bounds of the model *)

\* handles the driver hands out over a run
MaxHandles == 2

Usernames == {"u", "v"}
Passwords == {"p"}
Suffixes == {"@cluster0.example.net/test"}
DbNames == {"a", "b"}
CollNames == {"items", "users"}
Filters == {"f1", "f2"}
Values == {"d1", "d2"}

----------------------------------------------------------------------------
(* Go values *)

\* a nil *mongo.Client
Nil == 0
\* a nil *mongo.Database
NilDb == [h |-> Nil, name |-> ""]
\* a nil *mongo.Collection
NilCo == [h |-> Nil, db |-> "", name |-> ""]

\* a nil error
NoErr == 0

\* the message of the error SetCollection creates
SetCollectionMsg == "please set a database before setting a collection"

\* Return values.  err is the position in calls of the driver call whose
\* error the value carries (NoErr when it carries none).
Ret(kind, val, flag, err, on) ==
  [kind |-> kind, val |-> val, flag |-> flag, err |-> err, on |-> on]

\* nil returned as *mongo.SingleResult, *mongo.Cursor or any
Nothing == Ret("nil", "", FALSE, NoErr, NilCo)
\* a method without return value has returned
Void == Ret("void", "", FALSE, NoErr, NilCo)
\* the method did not return: nil pointer dereference
Panic == Ret("panic", "", FALSE, NoErr, NilCo)
\* an error return (Connect, Ping); err = NoErr is the nil error
Error(err) == Ret("error", "", FALSE, err, NilCo)
\* a (bool, error) return of Disconnect
BoolErr(flag, err) == Ret("boolerr", "", flag, err, NilCo)
\* (false, errors.New(msg))
BoolNewErr(msg) == Ret("boolerr", msg, FALSE, NoErr, NilCo)
\* a bool return
Bool(flag) == Ret("bool", "", flag, NoErr, NilCo)
\* the *mongo.SingleResult of Collection.FindOne(filter) on coll; it is
\* non-nil also when the query failed and then carries the query's error
Single(coll, filter, err) == Ret("single", filter, err = NoErr, err, coll)
\* the *mongo.Cursor of a successful Collection.Find(filter) on coll
Cursor(coll, filter) == Ret("cursor", filter, TRUE, NoErr, coll)
\* the caller's document handed back as any
Doc(object) == Ret("doc", object, TRUE, NoErr, NilCo)
\* an error handed back as any
ErrVal(err) == Ret("errval", "", FALSE, err, NilCo)

\* one driver call: the function, the handle it runs on, the collection it
\* runs on (NilCo for a client-level call), its filter, its other argument
\* (document, update, replacement, name, connection string) and its outcome
Call(fn, h, on, filter, arg, out) ==
  [fn |-> fn, h |-> h, on |-> on, filter |-> filter, arg |-> arg, out |-> out]

----------------------------------------------------------------------------
(* The facade and the driver as one record, threaded through a method *)

M == [cl |-> cl, cr |-> cr, db |-> db, co |-> co, u |-> u,
      live |-> live, next |-> next, calls |-> <<>>]

\* position of the next driver call of the running method
Pos(m) == Len(m.calls) + 1

\* the driver call c has been issued
Log(m, c) == [m EXCEPT !.calls = Append(@, c)]

\* the connection string with the bug of leaving out the ":" between
\* username and password
URI_NoColon(m) == "mongodb+srv://" \o m.cr.username \o m.cr.password \o m.u

\* the connection string Connect hands to the driver
URI(m) == "mongodb+srv://" \o m.cr.username \o ":" \o m.cr.password \o m.u

\* outcomes of a driver call on client handle h: a nil handle is
\* dereferenced, a disconnected handle reports ErrClientDisconnected, a
\* live one succeeds or reports an error
Outcomes(m, h) ==
  IF h = Nil THEN {"panic"}
  ELSE IF h \notin m.live THEN {"err"}
  ELSE {"ok", "err"}

\* c.co.<fn>(ctx, arg, ...): one driver call on the selected collection
CollCall(m, fn, filter, arg) ==
  { [m   |-> Log(m, Call(fn, m.co.h, m.co, filter, arg, out)),
     out |-> out,
     err |-> IF out = "err" THEN Pos(m) ELSE NoErr] : out \in Outcomes(m, m.co.h) }

----------------------------------------------------------------------------
(* The methods of Client.  Each takes the record m and gives the set of    *)
(* its runs: the record after the method and what the method returns.      *)

\* NewClient(_username, _password, _url): no driver call
NewClient(m, username, password, url) ==
  { [m   |-> [m EXCEPT !.cl = Nil, !.db = NilDb, !.co = NilCo, !.u = url,
                       !.cr = [username |-> username, password |-> password]],
     ret |-> Void] }

\* Connect with the bug-fix-like change of closing the handle held before
\* it is replaced
Connect_ClosesPrevious(m) ==
  { LET h == IF ok THEN m.next ELSE Nil
    IN  [m   |-> [Log(m, Call("Connect", h, NilCo, "", URI(m), IF ok THEN "ok" ELSE "err"))
                    EXCEPT !.cl = h,
                           !.live = IF ok THEN (@ \ {m.cl}) \cup {h} ELSE @ \ {m.cl},
                           !.next = IF ok THEN @ + 1 ELSE @],
         err |-> IF ok THEN NoErr ELSE Pos(m),
         ret |-> Error(IF ok THEN NoErr ELSE Pos(m))] : ok \in BOOLEAN }

\* Connect with the bug of keeping the driver's handle in a local variable
\* (cl, err := mongo.Connect(...)): c.cl stays as it was
Connect_DropsHandle(m) ==
  { LET h == IF ok THEN m.next ELSE Nil
    IN  [m   |-> [Log(m, Call("Connect", h, NilCo, "", URI(m), IF ok THEN "ok" ELSE "err"))
                    EXCEPT !.live = IF ok THEN @ \cup {h} ELSE @,
                           !.next = IF ok THEN @ + 1 ELSE @],
         err |-> IF ok THEN NoErr ELSE Pos(m),
         ret |-> Error(IF ok THEN NoErr ELSE Pos(m))] : ok \in BOOLEAN }

\* Connect: c.cl is assigned whatever mongo.Connect returns, which is a new
\* handle on success and nil together with the error on failure
Connect(m) ==
  { LET h == IF ok THEN m.next ELSE Nil
    IN  [m   |-> [Log(m, Call("Connect", h, NilCo, "", URI(m), IF ok THEN "ok" ELSE "err"))
                    EXCEPT !.cl = h,
                           !.live = IF ok THEN @ \cup {h} ELSE @,
                           !.next = IF ok THEN @ + 1 ELSE @],
         err |-> IF ok THEN NoErr ELSE Pos(m),
         ret |-> Error(IF ok THEN NoErr ELSE Pos(m))] : ok \in BOOLEAN }

\* Disconnect with the bug of wiping the password once the handle is closed
Disconnect_WipesPassword(m) ==
  { [m   |-> [Log(m, Call("Disconnect", m.cl, NilCo, "", "", x[1]))
                EXCEPT !.live = IF x[1] = "ok" \/ x[2] THEN @ \ {m.cl} ELSE @,
                       !.cr.password = IF x[1] = "ok" THEN "" ELSE @],
     ret |-> IF x[1] = "panic" THEN Panic
             ELSE IF x[1] = "err" THEN BoolErr(FALSE, Pos(m))
             ELSE BoolErr(TRUE, NoErr)] : x \in Outcomes(m, m.cl) \X BOOLEAN }

\* Disconnect: c.cl.Disconnect; a driver error may or may not have closed
\* the handle
Disconnect(m) ==
  { [m   |-> [Log(m, Call("Disconnect", m.cl, NilCo, "", "", x[1]))
                EXCEPT !.live = IF x[1] = "ok" \/ x[2] THEN @ \ {m.cl} ELSE @],
     ret |-> IF x[1] = "panic" THEN Panic
             ELSE IF x[1] = "err" THEN BoolErr(FALSE, Pos(m))
             ELSE BoolErr(TRUE, NoErr)] : x \in Outcomes(m, m.cl) \X BOOLEAN }

\* Ping with the bug of returning the driver ping's error although the
\* reconnect succeeded
Ping_KeepsPingError(m) ==
  UNION { LET m1 == Log(m, Call("Ping", m.cl, NilCo, "", "", out))
          IN  IF out = "panic" THEN {[m |-> m1, err |-> NoErr, panic |-> TRUE]}
              ELSE IF out = "err"
              THEN {[m |-> c.m, err |-> IF c.err # NoErr THEN c.err ELSE Pos(m),
                     panic |-> FALSE] : c \in Connect(m1)}
              ELSE {[m |-> m1, err |-> NoErr, panic |-> FALSE]}
          : out \in Outcomes(m, m.cl) }

\* Ping: c.cl.Ping, and on its error one c.Connect whose error is returned
Ping(m) ==
  UNION { LET m1 == Log(m, Call("Ping", m.cl, NilCo, "", "", out))
          IN  IF out = "panic" THEN {[m |-> m1, err |-> NoErr, panic |-> TRUE]}
              ELSE IF out = "err"
              THEN {[m |-> c.m, err |-> c.err, panic |-> FALSE] : c \in Connect(m1)}
              ELSE {[m |-> m1, err |-> NoErr, panic |-> FALSE]}
          : out \in Outcomes(m, m.cl) }

\* SetDatabase: c.db = c.cl.Database(db_name)
SetDatabase(m, db_name) ==
  IF m.cl = Nil
  THEN {[m |-> Log(m, Call("Database", Nil, NilCo, "", db_name, "panic")), ret |-> Panic]}
  ELSE {[m   |-> [Log(m, Call("Database", m.cl, NilCo, "", db_name, "ok"))
                    EXCEPT !.db = [h |-> m.cl, name |-> db_name]],
         ret |-> Void]}

\* SetCollection with the bug of assigning c.co before looking at c.db
SetCollection_AssignsFirst(m, cl_name) ==
  LET m1 == [m EXCEPT !.co = [h |-> m.db.h, db |-> m.db.name, name |-> cl_name]]
  IN  IF m.db = NilDb
      THEN {[m |-> m1, ret |-> BoolNewErr(SetCollectionMsg)]}
      ELSE {[m   |-> Log(m1, Call("Collection", m.db.h, NilCo, "", cl_name, "ok")),
             ret |-> BoolErr(TRUE, NoErr)]}

\* SetCollection with the bug of not looking at c.db at all
SetCollection_Unguarded(m, cl_name) ==
  {[m   |-> [Log(m, Call("Collection", m.db.h, NilCo, "", cl_name, "ok"))
               EXCEPT !.co = [h |-> m.db.h, db |-> m.db.name, name |-> cl_name]],
    ret |-> BoolErr(TRUE, NoErr)]}

\* SetCollection: refused while c.db is nil, else c.co = c.db.Collection(cl_name)
SetCollection(m, cl_name) ==
  IF m.db = NilDb
  THEN {[m |-> m, ret |-> BoolNewErr(SetCollectionMsg)]}
  ELSE {[m   |-> [Log(m, Call("Collection", m.db.h, NilCo, "", cl_name, "ok"))
                    EXCEPT !.co = [h |-> m.db.h, db |-> m.db.name, name |-> cl_name]],
         ret |-> BoolErr(TRUE, NoErr)]}

\* FindOne with the bug of returning nil when the query failed, as FindMany
\* does
FindOne_NilOnQueryError(m, filter) ==
  UNION { IF p.panic THEN {[m |-> p.m, ret |-> Panic]}
          ELSE IF p.err # NoErr THEN {[m |-> p.m, ret |-> Nothing]}
          ELSE { [m   |-> q.m,
                  ret |-> IF q.out = "panic" THEN Panic
                          ELSE IF q.out = "err" THEN Nothing
                          ELSE Single(p.m.co, filter, q.err)]
                 : q \in CollCall(p.m, "FindOne", filter, "") }
          : p \in Ping(m) }

\* FindOne with the bug of dropping the ping's error: the query is issued
\* whether or not the ping failed
FindOne_Ungated(m, filter) ==
  UNION { IF p.panic THEN {[m |-> p.m, ret |-> Panic]}
          ELSE { [m   |-> q.m,
                  ret |-> IF q.out = "panic" THEN Panic
                          ELSE Single(p.m.co, filter, q.err)]
                 : q \in CollCall(p.m, "FindOne", filter, "") }
          : p \in Ping(m) }

\* FindOne: ping, then one c.co.FindOne whose handle is returned as it is
FindOne(m, filter) ==
  UNION { IF p.panic THEN {[m |-> p.m, ret |-> Panic]}
          ELSE IF p.err # NoErr THEN {[m |-> p.m, ret |-> Nothing]}
          ELSE { [m   |-> q.m,
                  ret |-> IF q.out = "panic" THEN Panic
                          ELSE Single(p.m.co, filter, q.err)]
                 : q \in CollCall(p.m, "FindOne", filter, "") }
          : p \in Ping(m) }

\* FindMany with the bug of retrying the query once, as the mutating
\* methods do
FindMany_Retries(m, filter) ==
  UNION { IF p.panic THEN {[m |-> p.m, ret |-> Panic]}
          ELSE IF p.err # NoErr THEN {[m |-> p.m, ret |-> Nothing]}
          ELSE UNION { IF q.out = "panic" THEN {[m |-> q.m, ret |-> Panic]}
                       ELSE IF q.out = "err"
                       THEN { [m   |-> q2.m,
                               ret |-> IF q2.out = "err" THEN Nothing
                                       ELSE Cursor(p.m.co, filter)]
                              : q2 \in CollCall(q.m, "Find", filter, "") }
                       ELSE {[m |-> q.m, ret |-> Cursor(p.m.co, filter)]}
                       : q \in CollCall(p.m, "Find", filter, "") }
          : p \in Ping(m) }

\* FindMany: ping, then one c.co.Find; nil on its error, else the cursor
FindMany(m, filter) ==
  UNION { IF p.panic THEN {[m |-> p.m, ret |-> Panic]}
          ELSE IF p.err # NoErr THEN {[m |-> p.m, ret |-> Nothing]}
          ELSE { [m   |-> q.m,
                  ret |-> IF q.out = "panic" THEN Panic
                          ELSE IF q.out = "err" THEN Nothing
                          ELSE Cursor(p.m.co, filter)]
                 : q \in CollCall(p.m, "Find", filter, "") }
          : p \in Ping(m) }

\* InsertOne with the bug of handing the ping's error back
InsertOne_ReturnsPingError(m, object) ==
  UNION { IF p.panic THEN {[m |-> p.m, ret |-> Panic]}
          ELSE IF p.err # NoErr THEN {[m |-> p.m, ret |-> ErrVal(p.err)]}
          ELSE UNION { IF a1.out = "panic" THEN {[m |-> a1.m, ret |-> Panic]}
                       ELSE IF a1.out = "err"
                       THEN { [m   |-> a2.m,
                               ret |-> IF a2.out = "err" THEN ErrVal(a2.err)
                                       ELSE Doc(object)]
                              : a2 \in CollCall(a1.m, "InsertOne", "", object) }
                       ELSE {[m |-> a1.m, ret |-> Doc(object)]}
                       : a1 \in CollCall(p.m, "InsertOne", "", object) }
          : p \in Ping(m) }

\* InsertOne with the bug of returning the first attempt's error after the
\* retry failed
InsertOne_FirstError(m, object) ==
  UNION { IF p.panic THEN {[m |-> p.m, ret |-> Panic]}
          ELSE IF p.err # NoErr THEN {[m |-> p.m, ret |-> Nothing]}
          ELSE UNION { IF a1.out = "panic" THEN {[m |-> a1.m, ret |-> Panic]}
                       ELSE IF a1.out = "err"
                       THEN { [m   |-> a2.m,
                               ret |-> IF a2.out = "err" THEN ErrVal(a1.err)
                                       ELSE Doc(object)]
                              : a2 \in CollCall(a1.m, "InsertOne", "", object) }
                       ELSE {[m |-> a1.m, ret |-> Doc(object)]}
                       : a1 \in CollCall(p.m, "InsertOne", "", object) }
          : p \in Ping(m) }

\* InsertOne: ping, c.co.InsertOne, on its error a second c.co.InsertOne
\* whose error is returned; else the object
InsertOne(m, object) ==
  UNION { IF p.panic THEN {[m |-> p.m, ret |-> Panic]}
          ELSE IF p.err # NoErr THEN {[m |-> p.m, ret |-> Nothing]}
          ELSE UNION { IF a1.out = "panic" THEN {[m |-> a1.m, ret |-> Panic]}
                       ELSE IF a1.out = "err"
                       THEN { [m   |-> a2.m,
                               ret |-> IF a2.out = "err" THEN ErrVal(a2.err)
                                       ELSE Doc(object)]
                              : a2 \in CollCall(a1.m, "InsertOne", "", object) }
                       ELSE {[m |-> a1.m, ret |-> Doc(object)]}
                       : a1 \in CollCall(p.m, "InsertOne", "", object) }
          : p \in Ping(m) }

\* InsertMany with an implementation in place of the stub: one
\* c.co.InsertMany after the ping, and the documents handed back
InsertMany_Implemented(m, objects) ==
  UNION { IF p.panic THEN {[m |-> p.m, ret |-> Panic]}
          ELSE IF p.err # NoErr THEN {[m |-> p.m, ret |-> Nothing]}
          ELSE { [m   |-> a.m,
                  ret |-> IF a.out = "panic" THEN Panic
                          ELSE IF a.out = "err" THEN Nothing
                          ELSE Doc(objects)]
                 : a \in CollCall(p.m, "InsertMany", "", objects) }
          : p \in Ping(m) }

\* InsertMany: ping, then nil either way
InsertMany(m, objects) ==
  { IF p.panic THEN [m |-> p.m, ret |-> Panic]
    ELSE IF p.err # NoErr THEN [m |-> p.m, ret |-> Nothing]
    ELSE [m |-> p.m, ret |-> Nothing] : p \in Ping(m) }

\* UpdateOne with the bug of returning nil when the follow-up query failed
UpdateOne_NilOnFindError(m, filter, update) ==
  LET Checked(S) == {[m |-> r.m, ret |-> IF r.ret.err # NoErr THEN Nothing ELSE r.ret] : r \in S}
  IN
  UNION { IF p.panic THEN {[m |-> p.m, ret |-> Panic]}
          ELSE IF p.err # NoErr THEN {[m |-> p.m, ret |-> Nothing]}
          ELSE UNION { IF a1.out = "panic" THEN {[m |-> a1.m, ret |-> Panic]}
                       ELSE IF a1.out = "err"
                       THEN UNION { IF a2.out = "err"
                                    THEN {[m |-> a2.m, ret |-> Nothing]}
                                    ELSE Checked(FindOne(a2.m, filter))
                                    : a2 \in CollCall(a1.m, "UpdateOne", filter, update) }
                       ELSE Checked(FindOne(a1.m, filter))
                       : a1 \in CollCall(p.m, "UpdateOne", filter, update) }
          : p \in Ping(m) }

\* UpdateOne with the bug of giving up after the first failed attempt
UpdateOne_NoRetry(m, filter, update) ==
  UNION { IF p.panic THEN {[m |-> p.m, ret |-> Panic]}
          ELSE IF p.err # NoErr THEN {[m |-> p.m, ret |-> Nothing]}
          ELSE UNION { IF a1.out = "panic" THEN {[m |-> a1.m, ret |-> Panic]}
                       ELSE IF a1.out = "err" THEN {[m |-> a1.m, ret |-> Nothing]}
                       ELSE FindOne(a1.m, filter)
                       : a1 \in CollCall(p.m, "UpdateOne", filter, update) }
          : p \in Ping(m) }

\* UpdateOne: ping, c.co.UpdateOne, on its error a second c.co.UpdateOne;
\* nil when that fails too, else c.FindOne(filter)
UpdateOne(m, filter, update) ==
  UNION { IF p.panic THEN {[m |-> p.m, ret |-> Panic]}
          ELSE IF p.err # NoErr THEN {[m |-> p.m, ret |-> Nothing]}
          ELSE UNION { IF a1.out = "panic" THEN {[m |-> a1.m, ret |-> Panic]}
                       ELSE IF a1.out = "err"
                       THEN UNION { IF a2.out = "err"
                                    THEN {[m |-> a2.m, ret |-> Nothing]}
                                    ELSE FindOne(a2.m, filter)
                                    : a2 \in CollCall(a1.m, "UpdateOne", filter, update) }
                       ELSE FindOne(a1.m, filter)
                       : a1 \in CollCall(p.m, "UpdateOne", filter, update) }
          : p \in Ping(m) }

\* UpdateMany: ping, then nil either way
UpdateMany(m, filter, updates) ==
  { IF p.panic THEN [m |-> p.m, ret |-> Panic]
    ELSE IF p.err # NoErr THEN [m |-> p.m, ret |-> Nothing]
    ELSE [m |-> p.m, ret |-> Nothing] : p \in Ping(m) }

\* RemoveOne: ping, c.co.DeleteOne, on its error a second c.co.DeleteOne;
\* false when that fails too, else true
RemoveOne(m, filter) ==
  UNION { IF p.panic THEN {[m |-> p.m, ret |-> Panic]}
          ELSE IF p.err # NoErr THEN {[m |-> p.m, ret |-> Bool(FALSE)]}
          ELSE UNION { IF a1.out = "panic" THEN {[m |-> a1.m, ret |-> Panic]}
                       ELSE IF a1.out = "err"
                       THEN { [m |-> a2.m, ret |-> Bool(a2.out # "err")]
                              : a2 \in CollCall(a1.m, "DeleteOne", filter, "") }
                       ELSE {[m |-> a1.m, ret |-> Bool(TRUE)]}
                       : a1 \in CollCall(p.m, "DeleteOne", filter, "") }
          : p \in Ping(m) }

\* RemoveMany with the bug of not looking at the retry's error
RemoveMany_IgnoresRetryError(m, filter) ==
  UNION { IF p.panic THEN {[m |-> p.m, ret |-> Panic]}
          ELSE IF p.err # NoErr THEN {[m |-> p.m, ret |-> Bool(FALSE)]}
          ELSE UNION { IF a1.out = "panic" THEN {[m |-> a1.m, ret |-> Panic]}
                       ELSE IF a1.out = "err"
                       THEN { [m |-> a2.m, ret |-> Bool(TRUE)]
                              : a2 \in CollCall(a1.m, "DeleteMany", filter, "") }
                       ELSE {[m |-> a1.m, ret |-> Bool(TRUE)]}
                       : a1 \in CollCall(p.m, "DeleteMany", filter, "") }
          : p \in Ping(m) }

\* RemoveMany: as RemoveOne, with c.co.DeleteMany
RemoveMany(m, filter) ==
  UNION { IF p.panic THEN {[m |-> p.m, ret |-> Panic]}
          ELSE IF p.err # NoErr THEN {[m |-> p.m, ret |-> Bool(FALSE)]}
          ELSE UNION { IF a1.out = "panic" THEN {[m |-> a1.m, ret |-> Panic]}
                       ELSE IF a1.out = "err"
                       THEN { [m |-> a2.m, ret |-> Bool(a2.out # "err")]
                              : a2 \in CollCall(a1.m, "DeleteMany", filter, "") }
                       ELSE {[m |-> a1.m, ret |-> Bool(TRUE)]}
                       : a1 \in CollCall(p.m, "DeleteMany", filter, "") }
          : p \in Ping(m) }

\* ReplaceOne with the bug of querying the collection directly, without
\* FindOne's ping, after the replacement
ReplaceOne_QueriesDirectly(m, filter, replacement) ==
  UNION { IF p.panic THEN {[m |-> p.m, ret |-> Panic]}
          ELSE IF p.err # NoErr THEN {[m |-> p.m, ret |-> Nothing]}
          ELSE UNION { IF a1.out = "panic" THEN {[m |-> a1.m, ret |-> Panic]}
                       ELSE IF a1.out = "err"
                       THEN UNION { IF a2.out = "err"
                                    THEN {[m |-> a2.m, ret |-> Nothing]}
                                    ELSE {[m |-> q.m, ret |-> Single(a2.m.co, filter, q.err)]
                                          : q \in CollCall(a2.m, "FindOne", filter, "")}
                                    : a2 \in CollCall(a1.m, "ReplaceOne", filter, replacement) }
                       ELSE {[m |-> q.m, ret |-> Single(a1.m.co, filter, q.err)]
                             : q \in CollCall(a1.m, "FindOne", filter, "")}
                       : a1 \in CollCall(p.m, "ReplaceOne", filter, replacement) }
          : p \in Ping(m) }

\* ReplaceOne: ping, c.co.ReplaceOne, on its error a second c.co.ReplaceOne;
\* nil when that fails too, else c.FindOne(filter)
ReplaceOne(m, filter, replacement) ==
  UNION { IF p.panic THEN {[m |-> p.m, ret |-> Panic]}
          ELSE IF p.err # NoErr THEN {[m |-> p.m, ret |-> Nothing]}
          ELSE UNION { IF a1.out = "panic" THEN {[m |-> a1.m, ret |-> Panic]}
                       ELSE IF a1.out = "err"
                       THEN UNION { IF a2.out = "err"
                                    THEN {[m |-> a2.m, ret |-> Nothing]}
                                    ELSE FindOne(a2.m, filter)
                                    : a2 \in CollCall(a1.m, "ReplaceOne", filter, replacement) }
                       ELSE FindOne(a1.m, filter)
                       : a1 \in CollCall(p.m, "ReplaceOne", filter, replacement) }
          : p \in Ping(m) }

----------------------------------------------------------------------------
(* The state machine *)

\* the method called last, with its arguments
Op(name, filter, arg) == [name |-> name, filter |-> filter, arg |-> arg]

\* the facade as NewClient leaves it, before any call on the driver
Init ==
  /\ \E username \in Usernames, password \in Passwords, url \in Suffixes :
       /\ cr = [username |-> username, password |-> password]
       /\ u = url
  /\ cl = Nil
  /\ db = NilDb
  /\ co = NilCo
  /\ live = {}
  /\ next = 1
  /\ op = Op("NewClient", "", "")
  /\ result = Void
  /\ calls = <<>>

\* the method has run: the facade, the driver and the record of the call
\* take the values it left (the driver hands out at most MaxHandles handles)
Commit(o, r) ==
  /\ r.m.next <= MaxHandles + 1
  /\ cl' = r.m.cl
  /\ cr' = r.m.cr
  /\ db' = r.m.db
  /\ co' = r.m.co
  /\ u' = r.m.u
  /\ live' = r.m.live
  /\ next' = r.m.next
  /\ calls' = r.m.calls
  /\ result' = r.ret
  /\ op' = o

DoNewClient ==
  \E username \in Usernames, password \in Passwords, url \in Suffixes :
    \E r \in NewClient(M, username, password, url) : Commit(Op("NewClient", "", ""), r)

DoConnect ==
  \E c \in Connect(M) : Commit(Op("Connect", "", ""), [m |-> c.m, ret |-> c.ret])

DoDisconnect ==
  \E r \in Disconnect(M) : Commit(Op("Disconnect", "", ""), r)

DoPing ==
  \E p \in Ping(M) :
    Commit(Op("Ping", "", ""),
           [m |-> p.m, ret |-> IF p.panic THEN Panic ELSE Error(p.err)])

DoSetDatabase ==
  \E db_name \in DbNames :
    \E r \in SetDatabase(M, db_name) : Commit(Op("SetDatabase", "", db_name), r)

DoSetCollection ==
  \E cl_name \in CollNames :
    \E r \in SetCollection(M, cl_name) : Commit(Op("SetCollection", "", cl_name), r)

DoFindOne ==
  \E filter \in Filters :
    \E r \in FindOne(M, filter) : Commit(Op("FindOne", filter, ""), r)

DoFindMany ==
  \E filter \in Filters :
    \E r \in FindMany(M, filter) : Commit(Op("FindMany", filter, ""), r)

DoInsertOne ==
  \E object \in Values :
    \E r \in InsertOne(M, object) : Commit(Op("InsertOne", "", object), r)

DoInsertMany ==
  \E objects \in Values :
    \E r \in InsertMany(M, objects) : Commit(Op("InsertMany", "", objects), r)

DoUpdateOne ==
  \E filter \in Filters, update \in Values :
    \E r \in UpdateOne(M, filter, update) : Commit(Op("UpdateOne", filter, update), r)

DoUpdateMany ==
  \E filter \in Filters, updates \in Values :
    \E r \in UpdateMany(M, filter, updates) : Commit(Op("UpdateMany", filter, updates), r)

DoRemoveOne ==
  \E filter \in Filters :
    \E r \in RemoveOne(M, filter) : Commit(Op("RemoveOne", filter, ""), r)

DoRemoveMany ==
  \E filter \in Filters :
    \E r \in RemoveMany(M, filter) : Commit(Op("RemoveMany", filter, ""), r)

DoReplaceOne ==
  \E filter \in Filters, replacement \in Values :
    \E r \in ReplaceOne(M, filter, replacement) : Commit(Op("ReplaceOne", filter, replacement), r)

Next ==
  \/ DoNewClient
  \/ DoConnect
  \/ DoDisconnect
  \/ DoPing
  \/ DoSetDatabase
  \/ DoSetCollection
  \/ DoFindOne
  \/ DoFindMany
  \/ DoInsertOne
  \/ DoInsertMany
  \/ DoUpdateOne
  \/ DoUpdateMany
  \/ DoRemoveOne
  \/ DoRemoveMany
  \/ DoReplaceOne

Spec == Init /\ [][Next]_vars

TypeOK ==
  /\ cl \in 0..MaxHandles
  /\ live \subseteq 1..MaxHandles
  /\ next \in 1..(MaxHandles + 1)
  /\ Len(calls) <= 7

----------------------------------------------------------------------------
(* Reading the record of the last call *)

CrudMethods == {"FindOne", "FindMany", "InsertOne", "InsertMany", "UpdateOne",
                "UpdateMany", "RemoveOne", "RemoveMany", "ReplaceOne"}

\* the driver's find, insert, update, delete and replace functions
CrudFns == {"FindOne", "Find", "InsertOne", "InsertMany", "UpdateOne",
            "UpdateMany", "DeleteOne", "DeleteMany", "ReplaceOne"}

\* positions in calls of the driver calls of the functions in S
At(S) == {i \in 1..Len(calls) : calls[i].fn \in S}

\* the driver function a mutating method retries
MutFn(name) ==
  CASE name = "InsertOne" -> "InsertOne"
    [] name = "UpdateOne" -> "UpdateOne"
    [] name = "RemoveOne" -> "DeleteOne"
    [] name = "RemoveMany" -> "DeleteMany"
    [] name = "ReplaceOne" -> "ReplaceOne"
    [] OTHER -> "none"

\* positions of the mutation attempts of the last call
Attempts == At({MutFn(op.name)})

\* some attempt of the mutation returned without error
MutationOk == \E i \in Attempts : calls[i].out = "ok"

\* two attempts were made and both returned an error
MutationFailedTwice ==
  /\ Cardinality(Attempts) = 2
  /\ \A i \in Attempts : calls[i].out = "err"

\* the Ping at the start of the call failed: the driver ping returned an
\* error and so did the reconnect
StartPingFailed ==
  /\ Len(calls) >= 2
  /\ calls[1].fn = "Ping" /\ calls[1].out = "err"
  /\ calls[2].fn = "Connect" /\ calls[2].out = "err"

\* what a method returns when it has nothing to return
Empty(name) == IF name \in {"RemoveOne", "RemoveMany"} THEN Bool(FALSE) ELSE Nothing

----------------------------------------------------------------------------
(* Claims *)

\* C1: when the Ping at the start of a CRUD method fails (driver ping and
\* reconnect both report an error), the method issues no find, insert,
\* update, delete or replace driver call and returns its empty result
\* (false for RemoveOne and RemoveMany, nil for the others).
C1_PingGatesEveryOperation ==
  (op.name \in CrudMethods /\ StartPingFailed) =>
     /\ At(CrudFns) = {}
     /\ Len(calls) = 2
     /\ result = Empty(op.name)

\* C1 witness: RemoveOne on a selected collection whose start ping failed
C1_Witness ==
  /\ op.name = "RemoveOne"
  /\ StartPingFailed
  /\ co # NilCo
  /\ result = Bool(FALSE)

\* C2: Ping issues one driver ping.  When it succeeds, Connect is not called
\* and the nil error is returned.  When it reports an error, Connect is
\* called exactly once, and Ping returns an error exactly when that Connect
\* fails, the error being the Connect's.  (On a nil handle the driver ping
\* dereferences it and Ping does not return.)
C2_PingReconnectsOnce ==
  op.name = "Ping" =>
     /\ Len(calls) >= 1
     /\ At({"Ping"}) = {1}
     /\ calls[1].out = "ok" => (Len(calls) = 1 /\ result = Error(NoErr))
     /\ calls[1].out = "panic" => (Len(calls) = 1 /\ result = Panic)
     /\ calls[1].out = "err" =>
          /\ Len(calls) = 2
          /\ At({"Connect"}) = {2}
          /\ result.kind = "error"
          /\ (result.err # NoErr) <=> (calls[2].out = "err")
          /\ calls[2].out = "err" => result = Error(2)

\* C2 witness: a Ping whose driver ping and reconnect both failed
C2_Witness ==
  /\ op.name = "Ping"
  /\ Len(calls) = 2
  /\ calls[2].out = "err"
  /\ result = Error(2)

\* C3: InsertOne, UpdateOne, RemoveOne, RemoveMany and ReplaceOne issue
\* their mutation driver call at most twice, the second time exactly when
\* the first attempt returned an error, and after a second error they give
\* up: nothing more is called.
C3_RetryExactlyOnce ==
  MutFn(op.name) # "none" =>
     /\ Cardinality(Attempts) <= 2
     /\ \A i \in Attempts : \A j \in Attempts : j \in {i - 1, i, i + 1}
     /\ (Cardinality(Attempts) = 2) <=>
          (\E i \in Attempts : (i - 1) \notin Attempts /\ calls[i].out = "err")
     /\ MutationFailedTwice => \A i \in Attempts : i + 1 \in Attempts \/ i = Len(calls)

\* C3 witness: a ReplaceOne whose two attempts both failed
C3_Witness ==
  /\ op.name = "ReplaceOne"
  /\ MutationFailedTwice
  /\ result = Nothing

\* C4: InsertOne, when it returns, returns the document it was given when
\* the first or the retried insert succeeds, the error of the second
\* attempt when both fail, nil when the start ping fails, and nothing else.
C4_InsertOneResult ==
  (op.name = "InsertOne" /\ result # Panic) =>
     \/ /\ StartPingFailed
        /\ Attempts = {}
        /\ result = Nothing
     \/ /\ ~StartPingFailed
        /\ MutationOk
        /\ result = Doc(op.arg)
     \/ /\ ~StartPingFailed
        /\ MutationFailedTwice
        /\ result = ErrVal(Len(calls))
        /\ Len(calls) \in Attempts

\* C4 witness: a first insert that failed and a retry that succeeded
C4_Witness ==
  /\ op.name = "InsertOne"
  /\ Cardinality(Attempts) = 2
  /\ MutationOk
  /\ result = Doc(op.arg)

\* C5: RemoveOne and RemoveMany return true exactly when a delete attempt
\* (first or retried) completed without error; they return false when the
\* start ping fails and when both attempts fail.
C5_RemoveResult ==
  op.name \in {"RemoveOne", "RemoveMany"} =>
     /\ (result = Bool(TRUE)) <=> MutationOk
     /\ StartPingFailed => result = Bool(FALSE)
     /\ MutationFailedTwice => result = Bool(FALSE)
     /\ result \in {Bool(TRUE), Bool(FALSE), Panic}

\* C5 witness: a RemoveMany whose two delete attempts both failed
C5_Witness ==
  /\ op.name = "RemoveMany"
  /\ MutationFailedTwice
  /\ result = Bool(FALSE)

\* the facade and the driver as they were right after the mutation attempt
\* at position k of the last call, rebuilt from the record of the call: the
\* handle held is the one the start ping ran on or the one its reconnect
\* returned, and a handle connected after position k is not there yet
AfterAttempt(k) ==
  LET later == {i \in At({"Connect"}) : i > k /\ calls[i].out = "ok"}
  IN  [cl    |-> IF calls[1].out = "ok" THEN calls[1].h ELSE calls[2].h,
       cr    |-> cr, db |-> db, co |-> co, u |-> u,
       live  |-> live \ {calls[i].h : i \in later},
       next  |-> next - Cardinality(later),
       calls |-> SubSeq(calls, 1, k)]

\* C6: when the mutation of UpdateOne or ReplaceOne succeeded (first or
\* retried attempt), what the method returns and leaves behind is a run of
\* FindOne with the same filter started right after that attempt: its own
\* ping and reconnect, nil when that ping fails, else one query on the
\* selected collection with the method's filter, whose handle is returned.
C6_ReturnsFollowUpFindOne ==
  (op.name \in {"UpdateOne", "ReplaceOne"} /\ MutationOk) =>
     LET k == CHOOSE i \in Attempts : calls[i].out = "ok"
         n == Len(calls)
     IN  /\ [m |-> [M EXCEPT !.calls = calls], ret |-> result]
               \in FindOne(AfterAttempt(k), op.filter)
         /\ n > k
         /\ calls[k + 1].fn = "Ping"
         /\ At({"Ping"}) = {1, k + 1}
         /\ IF calls[n].fn = "FindOne"
            THEN /\ At({"FindOne"}) = {n}
                 /\ calls[n].filter = op.filter
                 /\ calls[n].on = co
                 /\ result = Single(co, op.filter,
                                    IF calls[n].out = "err" THEN n ELSE NoErr)
            ELSE /\ n = k + 2
                 /\ calls[k + 1].out = "err"
                 /\ calls[n].fn = "Connect" /\ calls[n].out = "err"
                 /\ result = Nothing

\* C6 witness: a ReplaceOne that succeeded on the retry and whose follow-up
\* FindOne reconnected and queried
C6_Witness ==
  /\ op.name = "ReplaceOne"
  /\ Cardinality(Attempts) = 2
  /\ MutationOk
  /\ Len(calls) = 6
  /\ calls[5].fn = "Connect" /\ calls[5].out = "ok"
  /\ result.kind = "single"

\* the Ping of the follow-up FindOne failed
FollowUpPingFailed ==
  /\ MutationOk
  /\ calls[Len(calls)].fn = "Connect"
  /\ calls[Len(calls)].out = "err"

\* the query of the follow-up FindOne returned an error
FollowUpQueryFailed ==
  /\ MutationOk
  /\ calls[Len(calls)].fn = "FindOne"
  /\ calls[Len(calls)].out = "err"

\* C7 as stated: UpdateOne returns nil when the start ping fails, when both
\* update attempts fail and when the follow-up FindOne fails, by its ping
\* or by its query; a non-nil result means update and find both succeeded.
C7_Original ==
  op.name = "UpdateOne" =>
     /\ (StartPingFailed \/ MutationFailedTwice \/ FollowUpPingFailed
           \/ FollowUpQueryFailed) => result = Nothing
     /\ result \notin {Nothing, Panic} =>
          (MutationOk /\ calls[Len(calls)].fn = "FindOne" /\ calls[Len(calls)].out = "ok")

\* C7 amended: UpdateOne returns nil exactly when the start ping fails,
\* when both update attempts fail or when the ping of the follow-up FindOne
\* fails.  When that FindOne's query fails, UpdateOne returns the driver's
\* query handle, which carries the query's error.  A non-nil result means
\* the update succeeded and the follow-up query was issued.
C7_UpdateOneResult ==
  op.name = "UpdateOne" =>
     /\ (StartPingFailed \/ MutationFailedTwice \/ FollowUpPingFailed)
           <=> result = Nothing
     /\ FollowUpQueryFailed => result = Single(co, op.filter, Len(calls))
     /\ result \notin {Nothing, Panic} =>
          (MutationOk /\ calls[Len(calls)].fn = "FindOne" /\ result.kind = "single")

\* C7 witness: an UpdateOne whose update succeeded and whose follow-up
\* query failed
C7_Witness ==
  /\ op.name = "UpdateOne"
  /\ FollowUpQueryFailed
  /\ result.kind = "single"
  /\ result.err = Len(calls)

\* C8: SetCollection called while no database is selected returns (false,
\* the "please set a database before setting a collection" error) for
\* every collection name, does not panic, calls nothing, and leaves the
\* collection unset and every other field of the facade as it was.
C8_SetCollectionWithoutDatabase ==
  [][(op'.name = "SetCollection" /\ db = NilDb) =>
       /\ result' = BoolNewErr(SetCollectionMsg)
       /\ co' = NilCo
       /\ calls' = <<>>
       /\ UNCHANGED <<cl, cr, db, co, u, live, next>>]_vars

\* C8 witness: SetCollection("items") was refused on a connected facade
\* without database
C8_Witness ==
  /\ op = Op("SetCollection", "", "items")
  /\ result = BoolNewErr(SetCollectionMsg)
  /\ cl # Nil
  /\ db = NilDb
  /\ co = NilCo

\* C9 as stated: a selected collection implies a selected database, and the
\* collection was obtained from the database that is selected now.
C9_Original ==
  co # NilCo => (db # NilDb /\ co.h = db.h /\ co.db = db.name)

\* C9 amended: a selected collection implies a selected database, and the
\* collection was obtained from the database that was selected when
\* SetCollection was called; SetDatabase leaves the selected collection as
\* it is, so it need not belong to the database selected now.
C9_CollectionImpliesDatabase ==
  /\ [](co # NilCo => db # NilDb)
  /\ [][co' # co =>
          \/ op'.name = "NewClient" /\ co' = NilCo
          \/ /\ op'.name = "SetCollection"
             /\ db # NilDb /\ db' = db
             /\ co'.h = db.h /\ co'.db = db.name]_vars
  /\ [][op'.name = "SetDatabase" => co' = co]_vars

\* C9 witness: the selected collection belongs to database "a" while
\* database "b" is selected
C9_Witness ==
  /\ co # NilCo
  /\ co.db = "a"
  /\ db.name = "b"

HostReachable ==
  \A i \in 1..Len(calls') : calls'[i].h \in live => calls'[i].out = "ok"

\* C11: a Ping that follows a successful Connect while the host answers
\* returns the nil error through the driver ping alone: it runs on the
\* handle Connect stored, Connect is not called again and the handle stays.
C11_ConnectThenPing ==
  [][(/\ op.name = "Connect" /\ result = Error(NoErr)
      /\ op'.name = "Ping"
      /\ HostReachable) =>
       /\ result' = Error(NoErr)
       /\ Len(calls') = 1
       /\ calls'[1] = Call("Ping", cl, NilCo, "", "", "ok")
       /\ cl' = cl /\ cl \in live']_vars

\* C11 witness: the first handle was connected and pinged directly, with
\* nothing selected yet
C11_Witness ==
  /\ op.name = "Ping"
  /\ calls = <<Call("Ping", 1, NilCo, "", "", "ok")>>
  /\ result = Error(NoErr)
  /\ cl = 1 /\ live = {1} /\ next = 2
  /\ db = NilDb

\* the last call handed an error value back to its caller: a non-nil error
\* return, or an error returned as any
ReturnsError ==
  \/ result.kind \in {"error", "boolerr", "errval"} /\ result.err # NoErr
  \/ result.kind = "boolerr" /\ result.val # ""

\* C12 as stated: only Connect, SetCollection and the double failure of
\* InsertOne hand an error value back; Ping and Disconnect never do.
C12_Original ==
  ReturnsError =>
     /\ op.name \in {"Connect", "SetCollection", "InsertOne"}
     /\ op.name = "InsertOne" => MutationFailedTwice

\* C12 amended: only Connect, Disconnect, Ping, SetCollection and the
\* double failure of InsertOne hand an error value back: Connect the
\* driver's connect error, Ping the error of its failed reconnect,
\* Disconnect the driver's disconnect error, SetCollection its own error,
\* InsertOne the second attempt's error.  No other method and no other
\* path returns an error value.
C12_ErrorReturns ==
  /\ ReturnsError =>
       /\ op.name \in {"Connect", "Disconnect", "Ping", "SetCollection", "InsertOne"}
       /\ op.name = "InsertOne" => (MutationFailedTwice /\ result = ErrVal(Len(calls)))
       /\ op.name = "Connect" => (calls[1].out = "err" /\ result = Error(1))
       /\ op.name = "Ping" => (StartPingFailed /\ result = Error(2))
       /\ op.name = "Disconnect" => (calls[1].out = "err" /\ result = BoolErr(FALSE, 1))
       /\ op.name = "SetCollection" => result = BoolNewErr(SetCollectionMsg)
  /\ (op.name = "Ping" /\ StartPingFailed) => ReturnsError
  /\ (op.name = "Disconnect" /\ calls[1].out = "err") => ReturnsError

\* C12 witness: a Disconnect whose driver call failed returned its error
C12_Witness ==
  /\ op.name = "Disconnect"
  /\ calls[1].out = "err"
  /\ result = BoolErr(FALSE, 1)

\* C13: every Connect, the direct one and every reconnect made by Ping,
\* hands the driver "mongodb+srv://" + username + ":" + password +
\* urlSuffix with the facade's values; ("u", "p",
\* "@cluster0.example.net/test") gives
\* "mongodb+srv://u:p@cluster0.example.net/test".
C13_ConnectionString ==
  \A i \in At({"Connect"}) :
     /\ calls[i].arg = "mongodb+srv://" \o cr.username \o ":" \o cr.password \o u
     /\ (cr = [username |-> "u", password |-> "p"] /\ u = "@cluster0.example.net/test")
          => calls[i].arg = "mongodb+srv://u:p@cluster0.example.net/test"
     /\ (cr = [username |-> "v", password |-> "p"] /\ u = "@cluster0.example.net/test")
          => calls[i].arg = "mongodb+srv://v:p@cluster0.example.net/test"

\* C13 witness: the reconnect of a CRUD method's ping used the string of
\* the scenario
C13_Witness ==
  /\ op.name = "FindMany"
  /\ Len(calls) >= 2
  /\ calls[2].fn = "Connect"
  /\ calls[2].arg = "mongodb+srv://u:p@cluster0.example.net/test"
  /\ cr = [username |-> "u", password |-> "p"]

\* C14: username, password and urlSuffix change only by NewClient: Connect,
\* Disconnect, Ping, SetDatabase, SetCollection and the CRUD methods leave
\* them as they are, whether they succeed, fail or panic; and NewClient
\* makes no driver call and touches no handle of the driver.
C14_CredentialsImmutable ==
  /\ [][op'.name # "NewClient" => UNCHANGED <<cr, u>>]_vars
  /\ [][op'.name = "NewClient" =>
          /\ calls' = <<>>
          /\ UNCHANGED <<live, next>>
          /\ cr' \in [username : Usernames, password : Passwords]
          /\ u' \in Suffixes]_vars

\* C14 witness: an InsertOne has failed twice on a facade built with
\* ("v", "p", "@cluster0.example.net/test"), which it still holds
C14_Witness ==
  /\ op.name = "InsertOne"
  /\ MutationFailedTwice
  /\ cr = [username |-> "v", password |-> "p"]
  /\ u = "@cluster0.example.net/test"

\* C15: FindOne and FindMany issue at most one query driver call, the last
\* call of the method, and none when the start ping fails.  When they
\* return, FindOne returns nil exactly on ping failure and otherwise the
\* driver's query handle, also when the query failed (the handle then
\* carries the error); FindMany returns nil exactly on ping failure or
\* query failure and otherwise the driver's cursor.
C15_FindResults ==
  /\ op.name = "FindOne" =>
       /\ At({"FindOne"}) \subseteq {Len(calls)}
       /\ At(CrudFns) = At({"FindOne"})
       /\ result # Panic =>
            /\ (result = Nothing) <=> StartPingFailed
            /\ ~StartPingFailed =>
                 /\ At({"FindOne"}) = {Len(calls)}
                 /\ calls[Len(calls)].filter = op.filter
                 /\ result = Single(co, op.filter,
                                    IF calls[Len(calls)].out = "err"
                                    THEN Len(calls) ELSE NoErr)
  /\ op.name = "FindMany" =>
       /\ At({"Find"}) \subseteq {Len(calls)}
       /\ At(CrudFns) = At({"Find"})
       /\ result # Panic =>
            /\ (result = Nothing) <=>
                 (StartPingFailed \/ calls[Len(calls)].out = "err")
            /\ result # Nothing =>
                 /\ At({"Find"}) = {Len(calls)}
                 /\ calls[Len(calls)].filter = op.filter
                 /\ calls[Len(calls)].out = "ok"
                 /\ result = Cursor(co, op.filter)

\* C15 witness: a FindOne whose ping succeeded and whose query failed
\* returned the query handle
C15_Witness ==
  /\ op.name = "FindOne"
  /\ Len(calls) = 2
  /\ calls[1].out = "ok"
  /\ calls[2].fn = "FindOne" /\ calls[2].out = "err"
  /\ result = Single(co, op.filter, 2)

\* positions of the Connect calls of the step
ConnectsOfStep == {i \in 1..Len(calls') : calls'[i].fn = "Connect"}

\* handles the Connect calls of the step established
EstablishedInStep == {calls'[i].h : i \in {j \in ConnectsOfStep : calls'[j].out = "ok"}}

\* C16: a step that calls Connect on a facade that holds a handle, directly
\* or through the recovery of a Ping, leaves in c.cl what the last Connect
\* returned, calls no Disconnect, and leaves the selected database, the
\* selected collection, the credentials and the URL suffix as they were;
\* each successful Connect adds one new handle to the connected ones and
\* none is taken away.
C16_ReconnectReplacesHandle ==
  [][(cl # Nil /\ ConnectsOfStep # {}) =>
       /\ \A i \in 1..Len(calls') : calls'[i].fn # "Disconnect"
       /\ \A i \in ConnectsOfStep :
            (\A j \in ConnectsOfStep : j <= i) => cl' = calls'[i].h
       /\ UNCHANGED <<db, co, cr, u>>
       /\ EstablishedInStep \cap live = {}
       /\ live' = live \cup EstablishedInStep
       /\ Cardinality(live') = Cardinality(live)
            + Cardinality({j \in ConnectsOfStep : calls'[j].out = "ok"})]_vars

\* C16 witness: a Connect called on a facade that held handle 1, with a
\* database selected on it, returned handle 2; both stay connected
C16_Witness ==
  /\ op.name = "Connect"
  /\ result = Error(NoErr)
  /\ cl = 2
  /\ live = {1, 2}
  /\ db.h = 1

\* the handle the facade held when the driver call at position i was
\* issued: the one the last Ping before it ran on or, when a Connect came
\* after that Ping, the one that Connect returned
HeldAt(i) ==
  LET before == {j \in At({"Ping", "Connect"}) : j < i}
      last   == CHOOSE j \in before : \A k \in before : k <= j
  IN  calls[last].h

\* C17: every find, insert, update, delete or replace driver call of a CRUD
\* method runs on a collection of the handle the facade holds at that
\* moment; after a Ping that recovered by reconnecting, on the new handle.
C17_CrudRunsOnHeldHandle ==
  \A i \in At(CrudFns) :
     calls[i].out # "panic" => calls[i].on.h = HeldAt(i)

\* C18: a facade that holds a handle keeps holding one through Ping,
\* Disconnect, SetDatabase and the CRUD methods: a failed reconnect inside
\* Ping leaves a usable handle in place, and none of these calls ends in
\* the dereference of a nil handle.
C18_HandleStaysPresent ==
  [][(cl # Nil /\ op'.name \in {"Ping", "Disconnect", "SetDatabase"} \cup CrudMethods) =>
       /\ cl' # Nil
       /\ \A i \in 1..Len(calls') :
            calls'[i].fn \in {"Ping", "Disconnect", "Database"} => calls'[i].out # "panic"]_vars

\* C19 as stated: whenever an update or replace driver call succeeded
\* within UpdateOne or ReplaceOne, the method returns a non-nil result.
C19_Original ==
  (op.name \in {"UpdateOne", "ReplaceOne"} /\ MutationOk) => result # Nothing

\* C19 amended: when an update or replace driver call succeeded within
\* UpdateOne or ReplaceOne, the method returns the handle of the follow-up
\* query unless the ping of the follow-up FindOne fails (driver ping and
\* reconnect both); then it returns nil although the mutation was applied.
\* So a nil result means that the start ping failed, that both attempts
\* failed, or that the mutation was applied and the follow-up ping failed.
C19_NilAfterAppliedMutation ==
  op.name \in {"UpdateOne", "ReplaceOne"} =>
     /\ MutationOk =>
          /\ (result = Nothing) <=> FollowUpPingFailed
          /\ ~FollowUpPingFailed => result.kind = "single"
     /\ (result = Nothing /\ ~MutationOk) => (StartPingFailed \/ MutationFailedTwice)

\* C19 witness: a ReplaceOne whose replacement succeeded at once returned
\* nil because the follow-up ping and its reconnect failed
C19_Witness ==
  /\ op.name = "ReplaceOne"
  /\ Len(calls) = 4
  /\ calls[2].fn = "ReplaceOne" /\ calls[2].out = "ok"
  /\ calls[3].fn = "Ping" /\ calls[3].out = "err"
  /\ calls[4].fn = "Connect" /\ calls[4].out = "err"
  /\ result = Nothing

====
